---- MODULE Spec2Model ----
(***************************************************************************)
(* Model of gilrs-core's Windows.Gaming.Input backend                      *)
(* (src/gilrs-core/src/platform/windows_wgi/gamepad.rs):                   *)
(*   - GamePadReading and its diff (events_from_differences),              *)
(*   - Gilrs::new, the two notification handlers and the polling thread    *)
(*     started by Gilrs::spawn_thread, all sending into one mpsc channel,  *)
(*   - Gilrs::next_event, which resolves a WgiEvent to a gamepad id,       *)
(*   - EvCode::into_u32.                                                   *)
(*                                                                         *)
(* Conventions.  Rust indices are 0-based and are kept 0-based in the      *)
(* model (index, id); a TLA+ sequence s holds Rust element i at s[i + 1].  *)
(* An f64 axis sample x is held as the integer k with x = k / AxisDen;     *)
(* AxisDen is a power of two, so every sample and every product in the     *)
(* axis formula is exact in f64 and the model's integer arithmetic gives   *)
(* the same result as the floating point code.                             *)
(* A RawGameController handle is identified with the physical controller   *)
(* it denotes; NonRoamableId and the capability counts are functions of    *)
(* the handle when they can be read.  Gamepad::new unwraps them: whether   *)
(* they can be read is an input of its callers (idOk, capsOk of            *)
(* next_event, builtOk of Gilrs_new), and a caller whose Gamepad::new      *)
(* fails panics.                                                           *)
(***************************************************************************)
EXTENDS Integers, Sequences, FiniteSets, TLC

(***************************************************************************)
(* Bounds of the model.  A run is cut where its clock has been read        *)
(* MaxPublish times (a WgiEvent reads it once, when it is built) and where *)
(* its polling thread has started MaxCycle cycles; some of the sessions    *)
(* trade one of the two bounds against the other.                          *)
(***************************************************************************)
MaxTime == 1            \* sample timestamps returned by GetCurrentReading: 0..MaxTime
MaxPublish == 2         \* WgiEvents built (and then sent) in one run
MaxCycle == 2           \* polling cycles in one run
MaxCycleShort == 1      \* polling cycles in one run of Spec and of SpecRich
MaxPublishPoll == 1     \* WgiEvents built in one run of SpecPoll
MaxInterleaved == 3     \* WgiEvents built in one run of SpecOrder

(***************************************************************************)
(* Program constants.                                                      *)
(***************************************************************************)
U16_MAX == 65535
I16_MIN == -32768
I16_MAX == 32767
I32_MIN == -2147483647 - 1
I32_MAX == 2147483647
AxisDen == 4

Controllers == {1, 2}
RichControllers == {3}
TwinControllers == {4, 5}
TrackedControllers == {6}
NoController == 0

Times == 0..MaxTime
AxisSamples == {0, 1, 2, 4}
SwitchPositions == {0, 1}

(***************************************************************************)
(* EvCodeKind, EvCode.                                                     *)
(***************************************************************************)
EvCodeKinds == {"Button", "Axis", "Switch"}

KindAsU32(kind) ==
    CASE kind = "Button" -> 0
      [] kind = "Axis"   -> 1
      [] kind = "Switch" -> 2

EvCode(kind, index) == [kind |-> kind, index |-> index]

NoCode == [kind |-> "None", index |-> 0]

Pow2(n) == 2 ^ n

\* The u32 values of the model (kind discriminants, indices, packed codes) stay
\* below 2^31, inside the integers TLC computes with.

\* a << n on u32: the bits shifted past bit 31 are dropped
Shl32(a, n) == (a % Pow2(32 - n)) * Pow2(n)

\* a >> n on u32
Shr32(a, n) == a \div Pow2(n)

\* a | b, bit by bit from the lowest
RECURSIVE BitOr32(_, _)
BitOr32(a, b) ==
    IF a = 0 THEN b
    ELSE IF b = 0 THEN a
    ELSE (IF a % 2 = 1 \/ b % 2 = 1 THEN 1 ELSE 0) + 2 * BitOr32(a \div 2, b \div 2)

\* a & b, bit by bit from the lowest
RECURSIVE BitAnd32(_, _)
BitAnd32(a, b) ==
    IF a = 0 \/ b = 0 THEN 0
    ELSE (IF a % 2 = 1 /\ b % 2 = 1 THEN 1 ELSE 0) + 2 * BitAnd32(a \div 2, b \div 2)

into_u32_shift8(self) == BitOr32(Shl32(KindAsU32(self.kind), 8), self.index)

\* EvCode::into_u32: (self.kind as u32) << 16 | self.index
into_u32(self) == BitOr32(Shl32(KindAsU32(self.kind), 16), self.index)

(***************************************************************************)
(* EventType.  Every variant is held in a record of one shape; value and   *)
(* code are 0 and NoCode for the variants that do not carry them.          *)
(***************************************************************************)
Connected == [type |-> "Connected", value |-> 0, code |-> NoCode]
Disconnected == [type |-> "Disconnected", value |-> 0, code |-> NoCode]
ButtonPressed(code) == [type |-> "ButtonPressed", value |-> 0, code |-> code]
ButtonReleased(code) == [type |-> "ButtonReleased", value |-> 0, code |-> code]
AxisValueChanged(value, code) == [type |-> "AxisValueChanged", value |-> value, code |-> code]
NoEvent == [type |-> "None", value |-> 0, code |-> NoCode]

(***************************************************************************)
(* GamePadReading.                                                         *)
(***************************************************************************)
\* slice::get: Option<&T> as a sequence of length 0 or 1
Get(s, index) == IF index + 1 \in 1..Len(s) THEN <<s[index + 1]>> ELSE <<>>

\* Rust `as i32` on an exact quotient num / den (den > 0): truncation toward
\* zero, saturating at the i32 range
AsI32(num, den) ==
    LET t == IF num >= 0 THEN num \div den ELSE -((-num) \div den)
    IN IF t > I32_MAX THEN I32_MAX ELSE IF t < I32_MIN THEN I32_MIN ELSE t

\* (((x - 0.5) * 2.0) * u16::MAX as f64) as i32, with x = k / AxisDen:
\* (x - 0.5) * 2 = (2k - AxisDen) / AxisDen
AxisValue(k) == AsI32((2 * k - AxisDen) * U16_MAX, AxisDen)

AxisDiffers_sameSide(self, new_reading, index) ==
    Get(new_reading.axes, index) # Get(new_reading.axes, index)

\* self.axes.get(index) != new_reading.axes.get(index)
AxisDiffers(self, new_reading, index) ==
    Get(self.axes, index) # Get(new_reading.axes, index)

ButtonEvent_inverted(new_reading, index) ==
    IF new_reading.buttons[index + 1]
    THEN ButtonReleased(EvCode("Button", index))
    ELSE ButtonPressed(EvCode("Button", index))

\* match new_reading.buttons[index] { true => ButtonPressed, false => ButtonReleased }
ButtonEvent(new_reading, index) ==
    IF new_reading.buttons[index + 1]
    THEN ButtonPressed(EvCode("Button", index))
    ELSE ButtonReleased(EvCode("Button", index))

\* for index in 0..new_reading.axes.len() { ... changed.push(event) }
RECURSIVE AxisChanges(_, _, _)
AxisChanges(self, new_reading, index) ==
    IF index >= Len(new_reading.axes) THEN <<>>
    ELSE (IF AxisDiffers(self, new_reading, index)
          THEN <<AxisValueChanged(AxisValue(new_reading.axes[index + 1]),
                                  EvCode("Axis", index))>>
          ELSE <<>>)
         \o AxisChanges(self, new_reading, index + 1)

\* for index in 0..new_reading.buttons.len() { ... changed.push(event) }
RECURSIVE ButtonChanges(_, _, _)
ButtonChanges(self, new_reading, index) ==
    IF index >= Len(new_reading.buttons) THEN <<>>
    ELSE (IF Get(self.buttons, index) # Get(new_reading.buttons, index)
          THEN <<ButtonEvent(new_reading, index)>>
          ELSE <<>>)
         \o ButtonChanges(self, new_reading, index + 1)

events_from_differences_buttonsFirst(self, new_reading) ==
    ButtonChanges(self, new_reading, 0) \o AxisChanges(self, new_reading, 0)

RECURSIVE SwitchChanges(_, _, _)
SwitchChanges(self, new_reading, index) ==
    IF index >= Len(new_reading.switches) THEN <<>>
    ELSE (IF Get(self.switches, index) # Get(new_reading.switches, index)
          THEN <<ButtonPressed(EvCode("Switch", index))>>
          ELSE <<>>)
         \o SwitchChanges(self, new_reading, index + 1)

events_from_differences_withSwitches(self, new_reading) ==
    AxisChanges(self, new_reading, 0) \o ButtonChanges(self, new_reading, 0)
        \o SwitchChanges(self, new_reading, 0)

\* GamePadReading::events_from_differences; the switches are not compared
events_from_differences(self, new_reading) ==
    AxisChanges(self, new_reading, 0) \o ButtonChanges(self, new_reading, 0)

\* the readings GetCurrentReading can fill into buffers of the given lengths,
\* captured from `controller`
ReadingsOfShape(na, nb, ns, controller) ==
    [axes : [1..na -> AxisSamples], buttons : [1..nb -> BOOLEAN],
     switches : [1..ns -> SwitchPositions], time : Times, from : {controller}]

(***************************************************************************)
(* The native API: capability counts and persistent identifier of a        *)
(* controller.  Controller 1 has one button; controller 2 reports no       *)
(* axes, buttons or switches, so the two have buffers of different         *)
(* lengths.  Controller 3 has one axis, one button and one switch.         *)
(* Controllers 4 and 5 are two devices of one make, with one button each.  *)
(* Controller 6 has two buttons.                                           *)
(* A session runs with the controllers of one of the sets Controllers,     *)
(* RichControllers, TwinControllers, TrackedControllers.                   *)
(***************************************************************************)
AxisCount(controller) == IF controller = 3 THEN 1 ELSE 0
ButtonCount(controller) ==
    IF controller = 2 THEN 0 ELSE IF controller = 6 THEN 2 ELSE 1
SwitchCount(controller) == IF controller = 3 THEN 1 ELSE 0
NonRoamableId(controller) == controller

\* GamePadReading::new: buffers sized by the controller's counts, then filled
GamePadReading_new(controller) ==
    ReadingsOfShape(AxisCount(controller), ButtonCount(controller),
                    SwitchCount(controller), controller)

\* GamePadReading::update: refills the buffers self already owns, whatever the
\* counts of the controller passed (GetCurrentReading is handed slices of self's
\* lengths and fills them or fails; the failure is the updOk = FALSE of
\* PollController)
GamePadReading_update(self, controller) ==
    ReadingsOfShape(Len(self.axes), Len(self.buttons), Len(self.switches), controller)

(***************************************************************************)
(* Gamepad (the descriptor) and the identity lookup of next_event.         *)
(***************************************************************************)
\* Gamepad::collect_axes_and_buttons
collect_buttons(controller) ==
    [i \in 1..ButtonCount(controller) |-> EvCode("Button", i - 1)]

collect_axes(controller) ==
    [i \in 1..AxisCount(controller) |-> EvCode("Axis", i - 1)]

Gamepad_new_oneBased(id, raw_game_controller) ==
    [id |-> id + 1,
     is_connected |-> TRUE,
     raw_game_controller |-> raw_game_controller,
     non_roamable_id |-> NonRoamableId(raw_game_controller),
     axes |-> collect_axes(raw_game_controller),
     buttons |-> collect_buttons(raw_game_controller)]

\* Whether Gamepad::new returns: NonRoamableId().unwrap() of Gamepad::new and
\* ButtonCount().unwrap(), AxisCount().unwrap() of collect_axes_and_buttons panic
\* on an Err.  idOk: the identifier can be read; capsOk: both counts can.
Unwraps(idOk, capsOk) == idOk /\ capsOk

\* Gamepad::new, the Gamepad it returns when Unwraps holds
Gamepad_new(id, raw_game_controller) ==
    [id |-> id,
     is_connected |-> TRUE,
     raw_game_controller |-> raw_game_controller,
     non_roamable_id |-> NonRoamableId(raw_game_controller),
     axes |-> collect_axes(raw_game_controller),
     buttons |-> collect_buttons(raw_game_controller)]

\* Iterator::position: the first 0-based index whose gamepad has the event's
\* NonRoamableId, as an Option
Position_none(gamepads_, raw_game_controller) == <<>>

Position(gamepads_, raw_game_controller) ==
    LET hits == {i \in 1..Len(gamepads_) :
                    NonRoamableId(raw_game_controller) = gamepads_[i].non_roamable_id}
    IN IF hits = {} THEN <<>>
       ELSE <<(CHOOSE i \in hits : \A j \in hits : i <= j) - 1>>

(***************************************************************************)
(* State.                                                                  *)
(***************************************************************************)
VARIABLES
    phase,        \* "init" before Gilrs::new, then "running", "failed" or "panicked"
    gamepads,     \* Gilrs::gamepads
    chan,         \* the mpsc channel: WgiEvents sent and not yet received
    now,          \* utils::time_now() as a logical clock: the number of reads so far
    notifying,    \* the WgiEvents built by running notification handlers and not
                  \*   yet sent
    log,          \* history: every WgiEvent sent, in the order of the sends
    last,         \* what the latest call of next_event returned (an Option<Event>)
    resolved,     \* history: every Event next_event returned, with the message it came
                  \*   from and whether the lookup found a gamepad
    pollPc,       \* the polling thread: "idle", "enumerate", "controller", "send", "panicked"
    controllers,  \* the polling thread's `controllers` of this cycle
    index,        \* the polling thread's loop variable `index`
    readings,     \* the polling thread's `readings`: pairs [old, new]
    pending,      \* the events of the current diff not yet sent
    stamped,      \* the WgiEvent the polling thread has built for the first of them
                  \*   and not yet sent, as an Option
    cycle,        \* history: the number of polling cycles started
    diffInvoked,  \* history: whether the latest controller step called events_from_differences
    first,        \* history, kept in the runs of SpecTrack only: the button states of
                  \*   the first capture of every position of `readings`
    panickedAt,   \* history, kept in the runs of SpecPoll only: the number of clock
                  \*   reads made when the polling thread panicked, -1 before
    call,         \* the stand-alone call made, if any: "none", "diff", "into_u32"
    self_reading, \* arguments and result of a stand-alone call of
    new_reading_, \*   events_from_differences
    changed,
    code,         \* argument and result of a stand-alone call of EvCode::into_u32
    packed

vars == <<phase, gamepads, chan, now, notifying, log, last, resolved, pollPc,
          controllers, index, readings, pending, stamped, cycle, diffInvoked,
          first, panickedAt, call, self_reading, new_reading_, changed, code,
          packed>>

sessionVars == <<phase, gamepads, chan, now, notifying, log, last, resolved,
                 pollPc, controllers, index, readings, pending, stamped, cycle,
                 diffInvoked, first, panickedAt>>
pollVars == <<pollPc, controllers, index, readings, pending, stamped, cycle,
              diffInvoked, first, panickedAt>>
consumerVars == <<gamepads, last, resolved>>
diffVars == <<call, self_reading, new_reading_, changed>>
codeVars == <<code, packed>>

Range(s) == {s[i] : i \in 1..Len(s)}

\* what RawGameControllers() can return: the attached controllers, distinct, in
\* some order.  Controllers come and go between two calls, so each call may
\* return any of these.
EnumerationsOf(devices) ==
    {s \in UNION {[1..n -> devices] : n \in 0..Cardinality(devices)} :
        \A i, j \in 1..Len(s) : i # j => s[i] # s[j]}

Enumerations == EnumerationsOf(Controllers)

NoReading == [axes |-> <<>>, buttons |-> <<>>, switches |-> <<>>, time |-> 0, from |-> NoController]

\* WgiEvent::new: reads the clock; the sending context and its polling cycle are
\* kept as history
WgiEvent(raw_game_controller, event, producer) ==
    [raw_game_controller |-> raw_game_controller, event |-> event, time |-> now,
     producer |-> producer, cycle |-> IF producer = "poll" THEN cycle ELSE 0]

\* Option<Event>
None == [some |-> FALSE, id |-> 0, event |-> NoEvent, time |-> 0]

\* what a call of next_event that panicked returned: nothing, not even None
Unwound == [some |-> FALSE, id |-> 0,
            event |-> [type |-> "Unwound", value |-> 0, code |-> NoCode], time |-> 0]
Some(id, event, time) == [some |-> TRUE, id |-> id, event |-> event, time |-> time]

InitSession ==
    /\ phase = "init"
    /\ gamepads = <<>>
    /\ chan = <<>>
    /\ now = 0
    /\ notifying = {}
    /\ log = <<>>
    /\ last = None
    /\ resolved = <<>>
    /\ pollPc = "idle"
    /\ controllers = <<>>
    /\ index = 0
    /\ readings = <<>>
    /\ pending = <<>>
    /\ stamped = <<>>
    /\ cycle = 0
    /\ diffInvoked = FALSE
    /\ first = <<>>
    /\ panickedAt = -1

InitDiff ==
    /\ call = "none"
    /\ self_reading = NoReading
    /\ new_reading_ = NoReading
    /\ changed = <<>>

InitCode ==
    /\ code = NoCode
    /\ packed = 0

Init == InitSession /\ InitDiff /\ InitCode

(***************************************************************************)
(* The channel.                                                            *)
(***************************************************************************)
\* Sender::send
Send(ch, msg) == Append(ch, msg)

TryRecv_drain(ch) ==
    IF ch = <<>> THEN [msg |-> <<>>, rest |-> <<>>]
    ELSE [msg |-> <<Head(ch)>>, rest |-> <<>>]

\* Receiver::try_recv().ok(): the oldest message, if any, and what stays queued
TryRecv(ch) ==
    IF ch = <<>> THEN [msg |-> <<>>, rest |-> <<>>]
    ELSE [msg |-> <<Head(ch)>>, rest |-> Tail(ch)]

(***************************************************************************)
(* Gilrs::new: enumerate, build one Gamepad per controller, spawn_thread.  *)
(* The call returns the session ("running"), returns the error of the      *)
(* enumeration ("failed") or panics in a Gamepad::new ("panicked").        *)
(***************************************************************************)
Gilrs_new_spawnsFirst(enumOk, enumerated, builtOk) ==
    /\ phase = "init"
    /\ IF ~enumOk
       THEN /\ phase' = "failed"
            /\ UNCHANGED gamepads
       ELSE IF enumerated # <<>> /\ ~builtOk
       THEN /\ phase' = "panicked"
            /\ UNCHANGED gamepads
       ELSE /\ gamepads' = [i \in 1..Len(enumerated) |->
                               Gamepad_new(i - 1, enumerated[i])]
            /\ phase' = "running"
    /\ pollPc' = "enumerate"
    /\ UNCHANGED <<chan, now, notifying, log, last, resolved, controllers,
                   index, readings, pending, stamped, cycle, diffInvoked, first,
                   panickedAt, diffVars, codeVars>>

\* builtOk: whether the unwraps of every Gamepad::new of the map succeed
Gilrs_new(enumOk, enumerated, builtOk) ==
    /\ phase = "init"
    /\ IF ~enumOk
       THEN /\ phase' = "failed"
            /\ UNCHANGED <<gamepads, pollPc>>
       ELSE IF enumerated # <<>> /\ ~builtOk
       THEN /\ phase' = "panicked"
            /\ UNCHANGED <<gamepads, pollPc>>
       ELSE /\ gamepads' = [i \in 1..Len(enumerated) |->
                               Gamepad_new(i - 1, enumerated[i])]
            /\ phase' = "running"
            /\ pollPc' = "enumerate"
    /\ UNCHANGED <<chan, now, notifying, log, last, resolved, controllers,
                   index, readings, pending, stamped, cycle, diffInvoked, first,
                   panickedAt, diffVars, codeVars>>

(***************************************************************************)
(* The notification handlers registered by spawn_thread.  g is the         *)
(* Option<RawGameController> the native API passes.  A handler runs on a   *)
(* thread of the native API, next to the polling thread and to other       *)
(* running handlers: it builds its WgiEvent, which reads the clock, and    *)
(* then sends it, in two steps.                                            *)
(***************************************************************************)
\* the added handler up to WgiEvent::new(g.clone(), EventType::Connected)
added_handler(g) ==
    /\ phase = "running"
    /\ IF g # NoController
       THEN /\ notifying' = notifying \cup {WgiEvent(g, Connected, "added")}
            /\ now' = now + 1
       ELSE UNCHANGED <<notifying, now>>
    /\ UNCHANGED <<phase, chan, log, consumerVars, pollVars, diffVars, codeVars>>

removed_handler_sendsConnected(g) ==
    /\ phase = "running"
    /\ IF g # NoController
       THEN /\ notifying' = notifying \cup {WgiEvent(g, Connected, "removed")}
            /\ now' = now + 1
       ELSE UNCHANGED <<notifying, now>>
    /\ UNCHANGED <<phase, chan, log, consumerVars, pollVars, diffVars, codeVars>>

\* the removed handler up to WgiEvent::new(g.clone(), EventType::Disconnected)
removed_handler(g) ==
    /\ phase = "running"
    /\ IF g # NoController
       THEN /\ notifying' = notifying \cup {WgiEvent(g, Disconnected, "removed")}
            /\ now' = now + 1
       ELSE UNCHANGED <<notifying, now>>
    /\ UNCHANGED <<phase, chan, log, consumerVars, pollVars, diffVars, codeVars>>

added_tx_send_again(wgi_event) ==
    /\ wgi_event \in notifying
    /\ wgi_event.producer = "added"
    /\ chan' = Send(chan, wgi_event)
    /\ log' = Append(log, wgi_event)
    /\ UNCHANGED <<phase, now, notifying, consumerVars, pollVars, diffVars,
                   codeVars>>

\* added_tx.send(..) of a running added handler
added_tx_send(wgi_event) ==
    /\ wgi_event \in notifying
    /\ wgi_event.producer = "added"
    /\ chan' = Send(chan, wgi_event)
    /\ log' = Append(log, wgi_event)
    /\ notifying' = notifying \ {wgi_event}
    /\ UNCHANGED <<phase, now, consumerVars, pollVars, diffVars, codeVars>>

\* removed_tx.send(..) of a running removed handler
removed_tx_send(wgi_event) ==
    /\ wgi_event \in notifying
    /\ wgi_event.producer = "removed"
    /\ chan' = Send(chan, wgi_event)
    /\ log' = Append(log, wgi_event)
    /\ notifying' = notifying \ {wgi_event}
    /\ UNCHANGED <<phase, now, consumerVars, pollVars, diffVars, codeVars>>

(***************************************************************************)
(* The polling thread of spawn_thread.                                     *)
(***************************************************************************)
\* The end of one iteration of the for loop: on to the next controller, or, after
\* the last one, out of the loop body (its locals are dropped) to sleep and start
\* the next cycle.
EndIteration ==
    IF index + 1 < Len(controllers)
    THEN /\ index' = index + 1
         /\ pollPc' = "controller"
         /\ UNCHANGED controllers
    ELSE /\ index' = 0
         /\ pollPc' = "enumerate"
         /\ controllers' = <<>>

\* let controllers = RawGameControllers().into_iter().flatten().collect();
\* a failed enumeration flattens to no controllers
PollEnumerate(enumOk, enumerated) ==
    /\ phase = "running"
    /\ pollPc = "enumerate"
    /\ cycle' = cycle + 1
    /\ controllers' = IF enumOk THEN enumerated ELSE <<>>
    /\ index' = 0
    /\ pollPc' = IF Len(controllers') > 0 THEN "controller" ELSE "enumerate"
    /\ UNCHANGED <<phase, chan, now, notifying, log, consumerVars, readings,
                   pending, stamped, diffInvoked, first, panickedAt, diffVars,
                   codeVars>>

SameReading_never(old_reading, new_reading) == FALSE

SameReading_whole(old_reading, new_reading) == old_reading = new_reading

\* old_reading.time == new_reading.time
SameReading(old_reading, new_reading) == old_reading.time = new_reading.time

UnwrapErr_skipsController ==
    /\ pending' = <<>>
    /\ diffInvoked' = FALSE
    /\ EndIteration
    /\ UNCHANGED readings

\* unwrap() on the Err of GamePadReading::new or of update: the polling thread
\* panics, it unwinds and its locals are dropped
UnwrapErr ==
    /\ pollPc' = "panicked"
    /\ index' = 0
    /\ controllers' = <<>>
    /\ readings' = <<>>
    /\ pending' = <<>>
    /\ diffInvoked' = FALSE

Swap_none(pair) == pair

\* std::mem::swap(old_reading, new_reading)
Swap(pair) == [old |-> pair.new, new |-> pair.old]

\* One iteration of the for loop up to the first send: create the pair if the
\* position has none, swap, update, compare the timestamps, diff.
\* newOk and updOk are the results of GamePadReading::new and of update.
PollController(newOk, updOk) ==
    /\ phase = "running"
    /\ pollPc = "controller"
    /\ LET controller == controllers[index + 1]
           isNone == Get(readings, index) = <<>>
       IN IF (isNone /\ ~newOk) \/ ~updOk
          THEN UnwrapErr
          ELSE \E reading \in (IF isNone THEN GamePadReading_new(controller)
                               ELSE {NoReading}) :
                 LET pushed == IF isNone
                               THEN Append(readings, [old |-> reading, new |-> reading])
                               ELSE readings
                     \* after mem::swap: old_reading is the previous new_reading
                     swapped == Swap(pushed[index + 1])
                     old_reading == swapped.old
                     buffer == swapped.new
                 IN \E new_reading \in GamePadReading_update(buffer, controller) :
                      /\ readings' = [pushed EXCEPT ![index + 1] =
                                         [old |-> old_reading, new |-> new_reading]]
                      /\ IF SameReading(old_reading, new_reading)
                         THEN /\ pending' = <<>>
                              /\ diffInvoked' = FALSE
                         ELSE /\ pending' = events_from_differences(old_reading, new_reading)
                              /\ diffInvoked' = TRUE
                      /\ IF pending' = <<>>
                         THEN EndIteration
                         ELSE /\ pollPc' = "send"
                              /\ UNCHANGED <<index, controllers>>
    /\ UNCHANGED <<phase, chan, now, notifying, log, consumerVars, stamped,
                   cycle, diffVars, codeVars>>

PollEvent_newest ==
    /\ phase = "running"
    /\ pollPc = "send"
    /\ stamped = <<>>
    /\ stamped' = <<WgiEvent(controllers[index + 1], pending[Len(pending)], "poll")>>
    /\ now' = now + 1
    /\ UNCHANGED <<phase, chan, notifying, log, consumerVars, pollPc, controllers,
                   index, readings, pending, cycle, diffInvoked, first, panickedAt,
                   diffVars, codeVars>>

\* WgiEvent::new(controller.clone(), event_type) for the next event of the diff
PollEvent ==
    /\ phase = "running"
    /\ pollPc = "send"
    /\ stamped = <<>>
    /\ stamped' = <<WgiEvent(controllers[index + 1], Head(pending), "poll")>>
    /\ now' = now + 1
    /\ UNCHANGED <<phase, chan, notifying, log, consumerVars, pollPc, controllers,
                   index, readings, pending, cycle, diffInvoked, first, panickedAt,
                   diffVars, codeVars>>

\* tx.send(..) of the WgiEvent just built
PollSend ==
    /\ phase = "running"
    /\ pollPc = "send"
    /\ stamped # <<>>
    /\ chan' = Send(chan, stamped[1])
    /\ log' = Append(log, stamped[1])
    /\ stamped' = <<>>
    /\ pending' = Tail(pending)
    /\ IF pending' = <<>>
       THEN EndIteration
       ELSE UNCHANGED <<index, pollPc, controllers>>
    /\ UNCHANGED <<phase, now, notifying, consumerVars, readings, cycle,
                   diffInvoked, first, panickedAt, diffVars, codeVars>>

(***************************************************************************)
(* Gilrs::next_event.                                                      *)
(***************************************************************************)
\* idOk, capsOk: whether NonRoamableId() and the capability counts of the
\* handle of the message can be read during the call.  An identifier that
\* cannot be read matches no gamepad (`_ => false`), and then Gamepad::new is
\* called and panics: the call unwinds after try_recv has taken the message.
next_event(idOk, capsOk) ==
    /\ phase = "running"
    /\ LET received == TryRecv(chan)
       IN /\ chan' = received.rest
          /\ IF received.msg = <<>>
             THEN /\ last' = None
                  /\ UNCHANGED <<gamepads, resolved>>
             ELSE LET wgi_event == received.msg[1]
                      position == IF idOk
                                  THEN Position(gamepads, wgi_event.raw_game_controller)
                                  ELSE <<>>
                      \* unwrap_or_else: push a new Gamepad, its index is len() - 1
                      pushed == IF position = <<>>
                                THEN Append(gamepads,
                                            Gamepad_new(Len(gamepads),
                                                        wgi_event.raw_game_controller))
                                ELSE gamepads
                      id == IF position = <<>> THEN Len(pushed) - 1 ELSE position[1]
                  IN IF position = <<>> /\ ~Unwraps(idOk, capsOk)
                     THEN /\ last' = Unwound
                          /\ UNCHANGED <<gamepads, resolved>>
                     ELSE /\ gamepads' =
                               IF wgi_event.event.type = "Connected"
                               THEN [pushed EXCEPT ![id + 1].is_connected = TRUE]
                               ELSE IF wgi_event.event.type = "Disconnected"
                               THEN [pushed EXCEPT ![id + 1].is_connected = FALSE]
                               ELSE pushed
                          /\ last' = Some(id, wgi_event.event, wgi_event.time)
                          /\ resolved' = Append(resolved,
                                                [id |-> id, event |-> wgi_event.event,
                                                 time |-> wgi_event.time,
                                                 from |-> wgi_event,
                                                 found |-> position # <<>>])
    /\ UNCHANGED <<phase, now, notifying, log, pollVars, diffVars, codeVars>>

\* Gilrs::gamepad
gamepad(id) == Get(gamepads, id)

(***************************************************************************)
(* The session of two controllers of different shapes, with up to          *)
(* MaxPublish messages and MaxCycleShort polling cycles (Spec), and        *)
(* with up to MaxPublishPoll messages and MaxCycle polling cycles          *)
(* (SpecPoll, further down).  In the sessions of Spec, SpecPoll, SpecRich, *)
(* SpecTwins, SpecTrack and SpecOrder the native queries of Gamepad::new   *)
(* can be read; SpecFair is the session in which they can fail.            *)
(***************************************************************************)
Next ==
    \/ \E enumOk \in BOOLEAN, enumerated \in Enumerations :
          Gilrs_new(enumOk, enumerated, TRUE)
    \/ \E g \in Controllers \cup {NoController} :
          added_handler(g) /\ now < MaxPublish
    \/ \E g \in Controllers \cup {NoController} :
          removed_handler(g) /\ now < MaxPublish
    \/ \E enumOk \in BOOLEAN, enumerated \in Enumerations :
          PollEnumerate(enumOk, enumerated) /\ cycle < MaxCycleShort
    \/ \E newOk, updOk \in BOOLEAN :
          PollController(newOk, updOk) /\ UNCHANGED <<first, panickedAt>>
    \/ \E wgi_event \in notifying : added_tx_send(wgi_event)
    \/ \E wgi_event \in notifying : removed_tx_send(wgi_event)
    \/ PollEvent /\ now < MaxPublish
    \/ PollSend
    \/ next_event(TRUE, TRUE)

Spec == Init /\ [][Next]_vars

(***************************************************************************)
(* The same session with other controllers: one controller with an axis,   *)
(* a button and a switch (SpecRich); two controllers of one shape, of      *)
(* which at most one is attached at a time (SpecTwins).                    *)
(***************************************************************************)
NextRich ==
    \/ \E enumOk \in BOOLEAN, enumerated \in EnumerationsOf(RichControllers) :
          Gilrs_new(enumOk, enumerated, TRUE)
    \/ \E g \in RichControllers \cup {NoController} :
          added_handler(g) /\ now < MaxPublish
    \/ \E g \in RichControllers \cup {NoController} :
          removed_handler(g) /\ now < MaxPublish
    \/ \E enumOk \in BOOLEAN, enumerated \in EnumerationsOf(RichControllers) :
          PollEnumerate(enumOk, enumerated) /\ cycle < MaxCycleShort
    \/ \E newOk, updOk \in BOOLEAN :
          PollController(newOk, updOk) /\ UNCHANGED <<first, panickedAt>>
    \/ \E wgi_event \in notifying : added_tx_send(wgi_event)
    \/ \E wgi_event \in notifying : removed_tx_send(wgi_event)
    \/ PollEvent /\ now < MaxPublish
    \/ PollSend
    \/ next_event(TRUE, TRUE)

SpecRich == Init /\ [][NextRich]_vars

\* the twins are used one at a time: an enumeration returns at most one of them
OneAtATime == {s \in EnumerationsOf(TwinControllers) : Len(s) <= 1}

NextTwins ==
    \/ \E enumOk \in BOOLEAN, enumerated \in OneAtATime :
          Gilrs_new(enumOk, enumerated, TRUE)
    \/ \E g \in TwinControllers \cup {NoController} :
          added_handler(g) /\ now < MaxPublish
    \/ \E g \in TwinControllers \cup {NoController} :
          removed_handler(g) /\ now < MaxPublish
    \/ \E enumOk \in BOOLEAN, enumerated \in OneAtATime :
          PollEnumerate(enumOk, enumerated) /\ cycle < MaxCycle
    \/ \E newOk, updOk \in BOOLEAN :
          PollController(newOk, updOk) /\ UNCHANGED <<first, panickedAt>>
    \/ \E wgi_event \in notifying : added_tx_send(wgi_event)
    \/ \E wgi_event \in notifying : removed_tx_send(wgi_event)
    \/ PollEvent /\ now < MaxPublish
    \/ PollSend
    \/ next_event(TRUE, TRUE)

SpecTwins == Init /\ [][NextTwins]_vars

(***************************************************************************)
(* The session of one controller with two buttons that stays attached,     *)
(* in an environment where two successive captures with one timestamp      *)
(* carry the same samples; `first` records the button states of the first  *)
(* capture of every position.                                              *)
(***************************************************************************)
StaysAttached == {s \in EnumerationsOf(TrackedControllers) : Len(s) = 1}

\* the reading just captured has the samples of the one before it when it has
\* its timestamp
TimestampsFaithful ==
    pollPc' # "panicked" =>
        LET pair == readings'[index + 1]
        IN pair.old.time = pair.new.time =>
               /\ pair.old.axes = pair.new.axes
               /\ pair.old.buttons = pair.new.buttons
               /\ pair.old.switches = pair.new.switches

TracksFirst ==
    first' = IF Len(readings') > Len(readings)
             THEN Append(first, readings'[Len(readings')].old.buttons)
             ELSE first

NextTrack ==
    \/ \E enumOk \in BOOLEAN, enumerated \in StaysAttached :
          Gilrs_new(enumOk, enumerated, TRUE)
    \/ \E g \in TrackedControllers \cup {NoController} :
          added_handler(g) /\ now < MaxPublish
    \/ \E g \in TrackedControllers \cup {NoController} :
          removed_handler(g) /\ now < MaxPublish
    \/ \E enumOk \in BOOLEAN, enumerated \in StaysAttached :
          PollEnumerate(enumOk, enumerated) /\ cycle < MaxCycle
    \/ \E newOk, updOk \in BOOLEAN :
          PollController(newOk, updOk) /\ TimestampsFaithful /\ TracksFirst
            /\ UNCHANGED panickedAt
    \/ \E wgi_event \in notifying : added_tx_send(wgi_event)
    \/ \E wgi_event \in notifying : removed_tx_send(wgi_event)
    \/ PollEvent /\ now < MaxPublish
    \/ PollSend
    \/ next_event(TRUE, TRUE)

SpecTrack == Init /\ [][NextTrack]_vars

(***************************************************************************)
(* The session of Spec seen from the polling thread: up to MaxCycle        *)
(* polling cycles and MaxPublishPoll messages; panickedAt records the      *)
(* clock at the panic of the polling thread.                               *)
(***************************************************************************)
TracksPanic ==
    panickedAt' = IF pollPc' = "panicked" THEN now ELSE panickedAt

NextPoll ==
    \/ \E enumOk \in BOOLEAN, enumerated \in Enumerations :
          Gilrs_new(enumOk, enumerated, TRUE)
    \/ \E g \in Controllers \cup {NoController} :
          added_handler(g) /\ now < MaxPublishPoll
    \/ \E g \in Controllers \cup {NoController} :
          removed_handler(g) /\ now < MaxPublishPoll
    \/ \E enumOk \in BOOLEAN, enumerated \in Enumerations :
          PollEnumerate(enumOk, enumerated) /\ cycle < MaxCycle
    \/ \E newOk, updOk \in BOOLEAN :
          PollController(newOk, updOk) /\ UNCHANGED first /\ TracksPanic
    \/ \E wgi_event \in notifying : added_tx_send(wgi_event)
    \/ \E wgi_event \in notifying : removed_tx_send(wgi_event)
    \/ PollEvent /\ now < MaxPublishPoll
    \/ PollSend
    \/ next_event(TRUE, TRUE)

SpecPoll == Init /\ [][NextPoll]_vars

(***************************************************************************)
(* The session of one controller with two buttons that comes and goes,     *)
(* with up to MaxInterleaved messages (SpecOrder).                         *)
(***************************************************************************)
NextOrder ==
    \/ \E enumOk \in BOOLEAN, enumerated \in EnumerationsOf(TrackedControllers) :
          Gilrs_new(enumOk, enumerated, TRUE)
    \/ \E g \in TrackedControllers \cup {NoController} :
          added_handler(g) /\ now < MaxInterleaved
    \/ \E g \in TrackedControllers \cup {NoController} :
          removed_handler(g) /\ now < MaxInterleaved
    \/ \E enumOk \in BOOLEAN, enumerated \in EnumerationsOf(TrackedControllers) :
          PollEnumerate(enumOk, enumerated) /\ cycle < MaxCycle
    \/ \E newOk, updOk \in BOOLEAN :
          PollController(newOk, updOk) /\ UNCHANGED <<first, panickedAt>>
    \/ \E wgi_event \in notifying : added_tx_send(wgi_event)
    \/ \E wgi_event \in notifying : removed_tx_send(wgi_event)
    \/ PollEvent /\ now < MaxInterleaved
    \/ PollSend
    \/ next_event(TRUE, TRUE)

SpecOrder == Init /\ [][NextOrder]_vars

(***************************************************************************)
(* The session of that controller in which the native queries of           *)
(* Gamepad::new can fail, in Gilrs::new and in next_event, with a consumer *)
(* that keeps calling next_event: a call that would take a message out of  *)
(* the channel is not postponed forever (SpecFair).                        *)
(***************************************************************************)
NextFair ==
    \/ \E enumOk, builtOk \in BOOLEAN,
          enumerated \in EnumerationsOf(TrackedControllers) :
          Gilrs_new(enumOk, enumerated, builtOk)
    \/ \E g \in TrackedControllers \cup {NoController} :
          added_handler(g) /\ now < MaxPublish
    \/ \E g \in TrackedControllers \cup {NoController} :
          removed_handler(g) /\ now < MaxPublish
    \/ \E enumOk \in BOOLEAN, enumerated \in EnumerationsOf(TrackedControllers) :
          PollEnumerate(enumOk, enumerated) /\ cycle < MaxCycle
    \/ \E newOk, updOk \in BOOLEAN :
          PollController(newOk, updOk) /\ UNCHANGED <<first, panickedAt>>
    \/ \E wgi_event \in notifying : added_tx_send(wgi_event)
    \/ \E wgi_event \in notifying : removed_tx_send(wgi_event)
    \/ PollEvent /\ now < MaxPublish
    \/ PollSend
    \/ \E idOk, capsOk \in BOOLEAN : next_event(idOk, capsOk)

SpecFair ==
    /\ Init
    /\ [][NextFair]_vars
    /\ WF_vars(\E idOk, capsOk \in BOOLEAN : next_event(idOk, capsOk))

(***************************************************************************)
(* events_from_differences on its own: any two readings of one shape (two  *)
(* axes, two buttons, one switch).                                         *)
(***************************************************************************)
DiffReadings ==
    [axes : [1..2 -> AxisSamples], buttons : [1..2 -> BOOLEAN],
     switches : [1..1 -> SwitchPositions], time : Times, from : {NoController}]

InitDiffCall ==
    /\ InitSession
    /\ InitCode
    /\ call = "none"
    /\ self_reading \in DiffReadings
    /\ new_reading_ \in DiffReadings
    /\ changed = <<>>

DiffCall ==
    /\ call = "none"
    /\ call' = "diff"
    /\ changed' = events_from_differences(self_reading, new_reading_)
    /\ UNCHANGED <<sessionVars, self_reading, new_reading_, codeVars>>

SpecDiff == InitDiffCall /\ [][DiffCall]_vars

(***************************************************************************)
(* EvCode::into_u32 on its own: every kind, every index that fits 16 bits. *)
(***************************************************************************)
MaxIndex == Pow2(16) - 1

InitCodeCall ==
    /\ InitSession
    /\ InitDiff
    /\ code \in [kind : EvCodeKinds, index : 0..MaxIndex]
    /\ packed = 0

CodeCall ==
    /\ call = "none"
    /\ call' = "into_u32"
    /\ packed' = into_u32(code)
    /\ UNCHANGED <<sessionVars, self_reading, new_reading_, changed, code>>

SpecEvCode == InitCodeCall /\ [][CodeCall]_vars

(***************************************************************************)
(* Properties of the session: C1, C2, C3, C8, C12 and C17 under Spec; C4,  *)
(* C13, C16 and C19, which are about the polling cycles, under SpecPoll;   *)
(* C9 and C15, which are about the three producers, under SpecOrder.       *)
(***************************************************************************)
\* every message sent so far, in the order of the channel: those next_event has
\* received, then those still queued
Published ==
    [k \in 1..(Len(resolved) + Len(chan)) |->
        IF k <= Len(resolved) THEN resolved[k].from ELSE chan[k - Len(resolved)]]

\* the persistent native identifier of the controller a returned event came from
NativeIdOf(r) == NonRoamableId(r.from.raw_game_controller)

NoDuplicateIds(table) ==
    \A i, j \in 1..Len(table) :
        i # j => table[i].non_roamable_id # table[j].non_roamable_id

\* the step is a call of next_event that returned an event
Resolves == Len(resolved') = Len(resolved) + 1

PollsController ==
    /\ pollPc = "controller"
    /\ pollPc' # "panicked"
    /\ <<pollPc, index>>' # <<pollPc, index>>

\* C4 (no event on an identical timestamp): when the reading just captured for a
\* controller has the timestamp of the previous reading of its pair, the diff is
\* not computed and the iteration ends with nothing sent and nothing left to
\* send for that controller, whether or not the values differ.
C4_NoEventOnSameTimestamp ==
    [][ ( /\ PollsController
          /\ readings'[index + 1].old.time = readings'[index + 1].new.time )
        => /\ ~diffInvoked'
           /\ pending' = <<>>
           /\ pollPc' # "send"
           /\ chan' = chan
           /\ now' = now ]_vars

\* the only iteration so far captured a reading with the old timestamp and
\* another button state, and nothing was sent
C4_Witness ==
    /\ cycle = 1
    /\ pollPc = "enumerate"
    /\ Len(readings) = 1
    /\ readings[1].old.time = readings[1].new.time
    /\ readings[1].old.buttons # readings[1].new.buttons
    /\ ~diffInvoked
    /\ now = 0

\* the step is a call of next_event: only it changes what the consumer owns once
\* the session runs, and only it takes messages out of the channel
CallsNextEvent ==
    /\ phase = "running"
    /\ \/ <<gamepads, last, resolved>>' # <<gamepads, last, resolved>>
       \/ Len(chan') < Len(chan)

\* C8 (polled retrieval): a call of next_event takes at most one message, the
\* oldest, out of the channel and returns at most one event; on an empty channel
\* it returns none and leaves the table of gamepads as it was.
C8_PolledRetrieval ==
    [][ CallsNextEvent =>
          IF chan = <<>>
          THEN /\ last' = None
               /\ chan' = <<>>
               /\ gamepads' = gamepads
               /\ resolved' = resolved
          ELSE /\ chan' = Tail(chan)
               /\ Len(resolved') = Len(resolved) + 1
               /\ resolved'[Len(resolved')].from = Head(chan)
               /\ last'.some ]_vars

\* next_event returned an event, then was called on the empty channel and
\* returned none
C8_Witness ==
    /\ last = None
    /\ chan = <<>>
    /\ Len(resolved) >= 1
    /\ Len(gamepads) >= 1

\* the place of a message in the order of the sends (a WgiEvent is told from
\* every other by its clock read)
SendOrder(m) == CHOOSE k \in 1..Len(log) : log[k] = m

\* the step is a send of the polling loop
PollSends ==
    /\ Len(log') = Len(log) + 1
    /\ log'[Len(log')].producer = "poll"

\* C9 (per-producer order): under every interleaving of the polling loop, the
\* handlers and the consumer, the events next_event returns that came from one
\* producer are returned in the order that producer sent them, whatever was
\* sent in between and whatever the order of the clock reads; the polling loop
\* builds and sends the events of a diff one by one from the first, and starts
\* the next diff only when all of them are sent, so that its events are returned
\* in the order it diffed them, those of a cycle before those of the next.
C9_ProducerOrder ==
    /\ [](/\ \A i, j \in 1..Len(resolved) :
               (i < j /\ resolved[i].from.producer = resolved[j].from.producer)
               => /\ resolved[i].from \in Range(log)
                  /\ resolved[j].from \in Range(log)
                  /\ SendOrder(resolved[i].from) < SendOrder(resolved[j].from)
                  /\ resolved[i].from.cycle <= resolved[j].from.cycle
          /\ \A i \in 1..Len(resolved), k \in 1..Len(chan) :
               resolved[i].from.producer = chan[k].producer
               => /\ SendOrder(resolved[i].from) < SendOrder(chan[k])
                  /\ resolved[i].from.cycle <= chan[k].cycle)
    /\ [][ /\ (stamped' # stamped /\ stamped' # <<>>) =>
                /\ pending # <<>>
                /\ pending' = pending
                /\ stamped'[1].event = Head(pending)
                /\ stamped'[1].raw_game_controller = controllers[index + 1]
                /\ stamped'[1].cycle = cycle
           /\ PollSends =>
                /\ stamped = <<log'[Len(log')]>>
                /\ pending # <<>>
                /\ pending' = Tail(pending)
           /\ (pending' # pending /\ ~PollSends) =>
                /\ pending = <<>>
                /\ stamped = <<>>
                /\ pollPc = "controller" ]_vars

\* three events were returned: one the polling loop sent in its first cycle, one
\* of the added handler, one the polling loop sent in its second cycle; the
\* handler read the clock after the polling loop had built its second event and
\* sent before the polling loop did
C9_Witness ==
    /\ Len(resolved) = 3
    /\ resolved[1].from.producer = "poll"
    /\ resolved[2].from.producer = "added"
    /\ resolved[3].from.producer = "poll"
    /\ resolved[1].from.cycle = 1
    /\ resolved[3].from.cycle = 2
    /\ resolved[2].time > resolved[3].time
    /\ resolved[1].from.raw_game_controller = resolved[3].from.raw_game_controller

\* C12 (enumeration failure at construction): when the enumeration of Gilrs::new
\* fails the call returns an error and there is no session: no gamepad is
\* built, no handler sends, the polling thread is not started and does no
\* cycle, and nothing is ever sent, queued or returned.
C12_EnumerationFailureAtNew ==
    phase = "failed" =>
        /\ gamepads = <<>>
        /\ pollPc = "idle"
        /\ cycle = 0
        /\ readings = <<>>
        /\ now = 0
        /\ notifying = {}
        /\ log = <<>>
        /\ chan = <<>>
        /\ pending = <<>>
        /\ stamped = <<>>
        /\ resolved = <<>>
        /\ last = None
        /\ ~ENABLED Next

\* Gilrs::new has returned the error
C12_Witness ==
    /\ phase = "failed"
    /\ gamepads = <<>>
    /\ pollPc = "idle"

\* the step is the iteration of the polling loop that constructs the pair of its
\* position, and it did not panic
ConstructsPair ==
    /\ PollsController
    /\ Get(readings, index) = <<>>

\* C13 (first cycle), as claimed: the iteration that constructs the pair of a
\* controller leaves nothing to send for that controller, whatever the second
\* capture of that iteration returns.
C13_FirstCycleSilent ==
    [][ ConstructsPair => (pending' = <<>> /\ pollPc' # "send") ]_vars

\* C13 (first cycle), amended: the iteration that constructs the pair of a
\* controller captures the controller twice, once for the pair (old = new) and
\* once more after the swap; it sends nothing itself, it leaves nothing to send
\* when the second capture has the timestamp of the first, and it leaves the
\* diff of the first capture against the second to send otherwise.
C13_FirstCycleDiffsItsTwoCaptures ==
    [][ ConstructsPair =>
          LET pair == readings'[index + 1]
          IN /\ Len(readings') = Len(readings) + 1
             /\ pair.old.from = controllers[index + 1]
             /\ pair.new.from = controllers[index + 1]
             /\ chan' = chan
             /\ pair.old.time = pair.new.time
                  => (~diffInvoked' /\ pending' = <<>> /\ pollPc' # "send")
             /\ pair.old.time # pair.new.time
                  => /\ diffInvoked'
                     /\ pending' = events_from_differences(pair.old, pair.new)
                     /\ (pollPc' = "send") = (pending' # <<>>) ]_vars

\* in the first cycle the pair of the only controller enumerated was constructed
\* and the second capture, with a later timestamp and another button state,
\* left an event to send
C13_Witness ==
    /\ cycle = 1
    /\ Len(readings) = 1
    /\ readings[1].old.from = readings[1].new.from
    /\ readings[1].old.time # readings[1].new.time
    /\ readings[1].old.buttons # readings[1].new.buttons
    /\ pollPc = "send"
    /\ Len(pending) = 1

ButtonTypes == {"ButtonPressed", "ButtonReleased"}
AxisButtonTypes == {"AxisValueChanged", "ButtonPressed", "ButtonReleased"}

\* the messages of the notification handlers
HandlerProducers == {"added", "removed"}

\* C15 (who writes what): every axis or button message built or sent is the
\* polling loop's and the polling loop builds nothing else; the added handler
\* builds only Connected and the removed handler only Disconnected.  A
\* notification that carries a controller makes its handler build one message,
\* for that controller, and that message is sent once: every message built is
\* either held by its sender or in the log of the sends, never both and never
\* twice; a step sends at most one message, the polling loop the event it has
\* built, which is the next of its diff, a handler a message it holds, which
\* it then holds no more.
C15_SoleWriter ==
    /\ [](/\ \A m \in Range(log) \cup Range(stamped) \cup notifying :
               /\ m.producer \in {"poll"} \cup HandlerProducers
               /\ (m.event.type \in AxisButtonTypes) = (m.producer = "poll")
               /\ m.producer = "added" => m.event = Connected
               /\ m.producer = "removed" => m.event = Disconnected
               /\ m.raw_game_controller # NoController
          /\ \A m \in notifying : m.producer \in HandlerProducers
          /\ \A k \in 1..Len(stamped) : stamped[k].producer = "poll"
          /\ Cardinality(notifying) + Len(stamped) + Len(log) = now
          /\ \A m \in notifying \cup Range(stamped) : m \notin Range(log)
          /\ \A j, k \in 1..Len(log) : j # k => log[j] # log[k]
          /\ Published = log)
    /\ [][ /\ Len(log') \in {Len(log), Len(log) + 1}
           /\ \A k \in 1..Len(log) : log'[k] = log[k]
           /\ Len(log') = Len(log) + 1 =>
                LET m == log'[Len(log')]
                IN IF m.producer = "poll"
                   THEN /\ pollPc = "send"
                        /\ stamped = <<m>>
                        /\ m.event = Head(pending)
                        /\ m.raw_game_controller = controllers[index + 1]
                        /\ notifying' = notifying
                   ELSE /\ m \in notifying
                        /\ notifying' = notifying \ {m}
                        /\ pollVars' = pollVars
           /\ ~(notifying' \subseteq notifying) =>
                \E m \in notifying' \ notifying :
                    /\ notifying' = notifying \cup {m}
                    /\ m.time = now
                    /\ now' = now + 1
                    /\ log' = log
                    /\ pollVars' = pollVars ]_vars

\* the polling loop has sent a button event, the added handler a Connected and
\* the removed handler a Disconnected; the two notifications ran at one time:
\* the removed handler built its message first and sent it last
C15_Witness ==
    /\ Len(log) = 3
    /\ \E i, j, k \in 1..3 :
         /\ log[i].producer = "poll"
         /\ log[i].event.type \in ButtonTypes
         /\ log[j].producer = "added"
         /\ log[j].event = Connected
         /\ log[k].producer = "removed"
         /\ log[k].event = Disconnected
         /\ j < k
         /\ log[j].time > log[k].time

\* the messages built at or after the panic of the polling thread (a message
\* carries the number of clock reads made before its own)
BuiltSincePanic(messages) == {m \in messages : m.time >= panickedAt}

\* C16 (a capture failure is fatal to the polling loop): an iteration of the
\* polling loop either captures its controller into the pair of its position or
\* ends the loop for good, whichever controller failed and however many cycles
\* and controllers were left, putting nothing into the channel; from then on
\* the polling loop does nothing, every message built is the Connected or
\* Disconnected of a handler, and the session goes on: a notification for any
\* controller still makes its handler build a message, a handler still sends
\* the message it holds to the end of the channel and next_event still returns
\* the oldest message queued.
C16_CaptureFailureFatal ==
    /\ [](pollPc = "panicked" =>
            /\ phase = "running"
            /\ panickedAt \in 0..now
            /\ pending = <<>>
            /\ stamped = <<>>
            /\ controllers = <<>>
            /\ \A m \in BuiltSincePanic(Range(log) \cup notifying) :
                 /\ m.producer \in HandlerProducers
                 /\ m.event \in {Connected, Disconnected}
            /\ \A g \in Controllers :
                 /\ ENABLED (added_handler(g) /\ Cardinality(notifying') >
                                                    Cardinality(notifying))
                 /\ ENABLED (removed_handler(g) /\ Cardinality(notifying') >
                                                      Cardinality(notifying))
            /\ \A m \in notifying :
                 ENABLED ((added_tx_send(m) \/ removed_tx_send(m))
                             /\ chan' = Append(chan, m))
            /\ chan # <<>> =>
                 ENABLED (next_event(TRUE, TRUE) /\ last'.some
                             /\ last'.event = Head(chan).event))
    /\ [][ /\ (pollPc = "controller" /\ pollVars' # pollVars) =>
                IF pollPc' = "panicked"
                THEN /\ chan' = chan
                     /\ log' = log
                     /\ notifying' = notifying
                     /\ now' = now
                     /\ consumerVars' = consumerVars
                     /\ phase' = phase
                ELSE /\ Len(readings') > index
                     /\ readings'[index + 1].new.from = controllers[index + 1]
                     /\ Get(readings, index) # <<>>
                          => readings'[index + 1].old = readings[index + 1].new
           /\ pollPc = "panicked" =>
                /\ pollVars' = pollVars
                /\ Len(log') > Len(log) =>
                     /\ log'[Len(log')].producer \in HandlerProducers
                     /\ log'[Len(log')].event \in {Connected, Disconnected} ]_vars

\* the polling loop ended on a capture failure in the first of its cycles;
\* after that a notification made the removed handler build a Disconnected,
\* the handler sent it and next_event has just returned it
C16_Witness ==
    /\ pollPc = "panicked"
    /\ cycle = 1
    /\ cycle < MaxCycle
    /\ chan = <<>>
    /\ Len(resolved) >= 1
    /\ LET r == resolved[Len(resolved)]
       IN /\ r.from.producer = "removed"
          /\ r.from.time >= panickedAt
          /\ last = Some(r.id, Disconnected, r.time)

\* C17 (id is position): in every state the gamepad at position i of the table
\* has id i, and every event next_event has returned carries an id below the
\* length of the table, at which gamepad() finds the gamepad with that id and with
\* the persistent native identifier of the controller the event came from.
C17_IdIsPosition ==
    /\ \A i \in 0..(Len(gamepads) - 1) : gamepad(i)[1].id = i
    /\ \A k \in 1..Len(resolved) :
         /\ resolved[k].id < Len(gamepads)
         /\ gamepad(resolved[k].id) # <<>>
         /\ gamepad(resolved[k].id)[1].id = resolved[k].id
         /\ gamepad(resolved[k].id)[1].non_roamable_id = NativeIdOf(resolved[k])
    /\ last.some =>
         /\ last.id < Len(gamepads)
         /\ gamepad(last.id)[1].non_roamable_id = NativeIdOf(resolved[Len(resolved)])

\* the table holds two gamepads and next_event has just returned an event of the
\* second, which it found in the table
C17_Witness ==
    /\ Len(gamepads) = 2
    /\ gamepads[2].id = 1
    /\ last.some
    /\ last.id = 1
    /\ resolved[Len(resolved)].found

\* C19 (codes within the capabilities), as claimed: every axis or button event
\* next_event has returned with id s carries a code of the capability list of
\* gamepad s: of its axes for AxisValueChanged, of its buttons for ButtonPressed
\* and ButtonReleased.
C19_CodeWithinCapabilities ==
    \A k \in 1..Len(resolved) :
        LET event == resolved[k].event
            descriptor == gamepad(resolved[k].id)[1]
        IN /\ event.type = "AxisValueChanged" => event.code \in Range(descriptor.axes)
           /\ event.type \in ButtonTypes => event.code \in Range(descriptor.buttons)

\* Gamepad::axis_info: the range every axis is reported to have
axis_info(nec) == [min |-> I16_MIN, max |-> I16_MAX]

(***************************************************************************)
(* Properties of events_from_differences (under SpecDiff).                 *)
(***************************************************************************)
\* the positions of `events` holding an event of one of `types` with `evcode`
EventsWith(events, types, evcode) ==
    {k \in 1..Len(events) : events[k].type \in types /\ events[k].code = evcode}

\* C5 (diff completeness): the diff of two readings of one shape holds exactly
\* one AxisValueChanged with code (Axis, i) for every axis index i whose old and
\* new values differ, none for an index whose values are equal, and no
\* AxisValueChanged with any other code.
C5_AxisDiffComplete ==
    call = "diff" =>
        /\ \A i \in 0..(Len(new_reading_.axes) - 1) :
             Cardinality(EventsWith(changed, {"AxisValueChanged"}, EvCode("Axis", i)))
                 = IF self_reading.axes[i + 1] # new_reading_.axes[i + 1] THEN 1 ELSE 0
        /\ \A k \in 1..Len(changed) :
             changed[k].type = "AxisValueChanged" =>
                 /\ changed[k].code.kind = "Axis"
                 /\ changed[k].code.index \in 0..(Len(new_reading_.axes) - 1)

\* a diff was taken of readings in which axis 0 moved and axis 1 did not
C5_Witness ==
    /\ call = "diff"
    /\ self_reading.axes[1] # new_reading_.axes[1]
    /\ self_reading.axes[2] = new_reading_.axes[2]
    /\ Len(changed) >= 1

\* C6 (button diff correctness): for every button index i whose old and new
\* states differ the diff holds exactly one event with code (Button, i), which is
\* ButtonPressed if the new state is true and ButtonReleased otherwise; it holds
\* no button event for an unchanged index nor with any other code; old
\* [false, true], new [true, true] gives exactly [ButtonPressed((Button, 0))].
C6_ButtonDiffCorrect ==
    call = "diff" =>
        /\ \A i \in 0..(Len(new_reading_.buttons) - 1) :
             LET hits == EventsWith(changed, ButtonTypes, EvCode("Button", i))
             IN IF self_reading.buttons[i + 1] # new_reading_.buttons[i + 1]
                THEN /\ Cardinality(hits) = 1
                     /\ \A k \in hits :
                          changed[k].type = IF new_reading_.buttons[i + 1]
                                            THEN "ButtonPressed" ELSE "ButtonReleased"
                ELSE hits = {}
        /\ \A k \in 1..Len(changed) :
             changed[k].type \in ButtonTypes =>
                 /\ changed[k].code.kind = "Button"
                 /\ changed[k].code.index \in 0..(Len(new_reading_.buttons) - 1)
        /\ ( /\ self_reading.buttons = <<FALSE, TRUE>>
             /\ new_reading_.buttons = <<TRUE, TRUE>>
             /\ self_reading.axes = new_reading_.axes )
           => changed = <<ButtonPressed(EvCode("Button", 0))>>

\* the diff of old buttons [false, true] and new buttons [true, true] was taken
C6_Witness ==
    /\ call = "diff"
    /\ self_reading.buttons = <<FALSE, TRUE>>
    /\ new_reading_.buttons = <<TRUE, TRUE>>
    /\ self_reading.axes = new_reading_.axes
    /\ Len(changed) = 1

\* C7 (axis value range), as claimed: every AxisValueChanged value made from a
\* raw sample in [0, 1] is (sample - 0.5) * 2 * AXIS_SCALE with AXIS_SCALE the
\* largest magnitude of the range axis_info reports (that of its max or that of
\* its min), and so lies inside that range, the 16-bit signed range.
C7_AxisValueInAxisInfoRange ==
    call = "diff" =>
        \A k \in 1..Len(changed) :
            changed[k].type = "AxisValueChanged" =>
                LET info == axis_info(changed[k].code)
                    sample == new_reading_.axes[changed[k].code.index + 1]
                IN /\ \E scale \in {info.max, -info.min} :
                        changed[k].value = AsI32((2 * sample - AxisDen) * scale, AxisDen)
                   /\ changed[k].value >= info.min
                   /\ changed[k].value <= info.max

(***************************************************************************)
(* Properties of the session of a controller with an axis, a button and a  *)
(* switch (under SpecRich).                                                *)
(***************************************************************************)
\* the two readings have the same axis values and the same button states
SameAxesAndButtons(pair) ==
    /\ pair.old.axes = pair.new.axes
    /\ pair.old.buttons = pair.new.buttons

\* C11 (switches are not surfaced): the diff of two readings that differ only in
\* their switch positions is empty, so the polling loop has nothing to send for
\* them, and no message sent, queued or returned by next_event carries a code of
\* kind Switch.
C11_SwitchNeverSurfaced ==
    /\ \A i \in 1..Len(readings) :
         SameAxesAndButtons(readings[i])
         => events_from_differences(readings[i].old, readings[i].new) = <<>>
    /\ pollPc = "send" => ~SameAxesAndButtons(readings[index + 1])
    /\ \A k \in 1..Len(pending) : pending[k].code.kind # "Switch"
    /\ \A k \in 1..Len(Published) : Published[k].event.code.kind # "Switch"
    /\ \A k \in 1..Len(resolved) : resolved[k].event.code.kind # "Switch"
    /\ last.event.code.kind # "Switch"

\* the polling loop diffed two readings with different timestamps that differ
\* only in the switch position, and sent nothing
C11_Witness ==
    /\ diffInvoked
    /\ Len(readings) = 1
    /\ readings[1].old.switches # readings[1].new.switches
    /\ SameAxesAndButtons(readings[1])
    /\ readings[1].old.time # readings[1].new.time
    /\ pending = <<>>
    /\ pollPc = "enumerate"
    /\ now = 0

\* the place of an axis or button event in the order of a diff: the axes by
\* index, then the buttons by index
Rank(event) ==
    (IF event.type = "AxisValueChanged" THEN 0 ELSE 1) * (MaxIndex + 1) + event.code.index

Ordered(events) ==
    \A i, j \in 1..Len(events) : i < j => Rank(events[i]) < Rank(events[j])

\* the diff of any two readings of two axes, two buttons and a switch is ordered
\* (a fact about the function alone: it is evaluated once, before Gilrs::new)
EveryDiffOrdered ==
    \A self \in DiffReadings, new_reading \in DiffReadings :
        Ordered(events_from_differences(self, new_reading))

\* the messages the polling loop has sent so far, in the order it sent them
PollPublished == SelectSeq(Published, LAMBDA m : m.producer = "poll")

\* C14 (order of the diff and of its publication): in the diff of any two
\* readings of one shape every AxisValueChanged comes before every button event
\* and the indices of each kind ascend strictly; the polling loop sends the
\* events of a diff in that order, one after the other, and goes on to the next
\* controller only when none is left.
C14_DiffOrderPublished ==
    /\ phase = "init" => EveryDiffOrdered
    /\ pending # <<>> => pollPc = "send"
    /\ pollPc = "send" =>
         LET diff == events_from_differences(readings[index + 1].old,
                                             readings[index + 1].new)
             sent == Len(diff) - Len(pending)
             base == Len(PollPublished) - sent
         IN /\ sent >= 0
            /\ base >= 0
            /\ pending = SubSeq(diff, sent + 1, Len(diff))
            /\ \A k \in 1..sent :
                 /\ PollPublished[base + k].event = diff[k]
                 /\ PollPublished[base + k].raw_game_controller = controllers[index + 1]
                 /\ PollPublished[base + k].cycle = cycle
    /\ \A i, j \in 1..Len(PollPublished) :
         ( /\ i < j
           /\ PollPublished[i].cycle = PollPublished[j].cycle
           /\ PollPublished[i].raw_game_controller = PollPublished[j].raw_game_controller )
         => /\ Rank(PollPublished[i].event) < Rank(PollPublished[j].event)
            /\ \A k \in i..j :
                 PollPublished[k].raw_game_controller = PollPublished[i].raw_game_controller

\* one diff gave an axis event and a button event, and both were sent, the axis
\* event first
C14_Witness ==
    /\ Len(PollPublished) = 2
    /\ PollPublished[1].cycle = PollPublished[2].cycle
    /\ PollPublished[1].event.type = "AxisValueChanged"
    /\ PollPublished[2].event.type \in ButtonTypes
    /\ pending = <<>>

(***************************************************************************)
(* Properties of the session of two controllers of one shape (under        *)
(* SpecTwins).                                                             *)
(***************************************************************************)
\* C18 (a diff pairs two captures of one controller), as claimed: whenever the
\* polling loop has diffed the pair of a position and has events of that diff to
\* send with the handle of controller c, both readings of the pair were captured
\* from c, however the controllers came and went between the cycles.
C18_DiffOfOneController ==
    pollPc = "send" =>
        /\ readings[index + 1].new.from = controllers[index + 1]
        /\ readings[index + 1].old.from = controllers[index + 1]

(***************************************************************************)
(* Properties of the session of a controller that stays attached (under    *)
(* SpecTrack).                                                             *)
(***************************************************************************)
\* the button states after the button events `events` are applied, in order, to
\* `buttons`
RECURSIVE ApplyButtonEvents(_, _)
ApplyButtonEvents(buttons, events) ==
    IF events = <<>> THEN buttons
    ELSE ApplyButtonEvents(
             [buttons EXCEPT ![Head(events).code.index + 1] =
                                 (Head(events).type = "ButtonPressed")],
             Tail(events))

\* every event of `events`, applied in order to `buttons`, changes the state of
\* its button
RECURSIVE EveryEventChanges(_, _)
EveryEventChanges(buttons, events) ==
    \/ events = <<>>
    \/ /\ buttons[Head(events).code.index + 1] # (Head(events).type = "ButtonPressed")
       /\ EveryEventChanges(ApplyButtonEvents(buttons, <<Head(events)>>), Tail(events))

\* the button events next_event has returned for `controller`, in the order it
\* returned them
ButtonEventsOf(controller) ==
    LET mine == SelectSeq(resolved,
                          LAMBDA r : /\ r.event.type \in ButtonTypes
                                     /\ r.from.raw_game_controller = controller)
    IN [k \in 1..Len(mine) |-> mine[k].event]

\* C20 (the events track the buttons): for a controller that stays attached at
\* its position, without a capture failure and with equal timestamps carrying
\* equal samples, once the polling loop is between two cycles and the consumer
\* has emptied the channel, the button events returned for the controller,
\* applied in order to the button states of its first capture, give the button
\* states of its latest capture, and each of them changes the state of its
\* button (no change is lost, none is reported twice).
C20_EventsTrackButtons ==
    (pollPc = "enumerate" /\ chan = <<>>) =>
        \A i \in 1..Len(readings) :
            LET events == ButtonEventsOf(readings[i].new.from)
            IN /\ ApplyButtonEvents(first[i], events) = readings[i].new.buttons
               /\ EveryEventChanges(first[i], events)

\* after three captures of the controller (pressed, released, pressed again on
\* button 0) over two cycles both events were returned and the channel is empty
C20_Witness ==
    /\ pollPc = "enumerate"
    /\ chan = <<>>
    /\ cycle = 2
    /\ Len(readings) = 1
    /\ first[1][1] = readings[1].new.buttons[1]
    /\ readings[1].old.buttons[1] # readings[1].new.buttons[1]
    /\ Len(ButtonEventsOf(readings[1].new.from)) = 2

(***************************************************************************)
(* Properties of the channel between the producers and next_event (under   *)
(* SpecFair, the session in which the native queries of Gamepad::new can   *)
(* fail).                                                                  *)
(***************************************************************************)
\* how often m occurs in the sequence s
Count(s, m) == Cardinality({k \in 1..Len(s) : s[k] = m})

\* what the messages that next_event has returned came from
Returned == [k \in 1..Len(resolved) |-> resolved[k].from]

\* the clock readings of a sequence of messages
TimesOf(s) == {s[k].time : k \in 1..Len(s)}

\* C21 (no loss, no duplication), as claimed: every message a handler or the
\* polling loop has sent is either queued and not yet returned, or was returned
\* by exactly one call of next_event with the event and time it was built with
\* (it is queued or returned as often as it was sent, once), and nothing that
\* was not sent is queued or returned; a returned message stays returned; and
\* with a consumer that keeps calling next_event every message sent is
\* eventually returned.
C21_NoLossNoDuplication ==
    /\ [](/\ \A k \in 1..Len(log) :
               /\ Count(log, log[k]) = 1
               /\ Count(chan, log[k]) + Count(Returned, log[k]) = 1
          /\ Range(chan) \cup Range(Returned) \subseteq Range(log)
          /\ \A k \in 1..Len(resolved) :
               /\ resolved[k].event = resolved[k].from.event
               /\ resolved[k].time = resolved[k].from.time)
    /\ [][ /\ Len(resolved') >= Len(resolved)
           /\ \A k \in 1..Len(resolved) : resolved'[k] = resolved[k] ]_vars
    /\ \A t \in 0..(MaxPublish - 1) :
           (t \in TimesOf(log)) ~> (t \in TimesOf(Returned))

(***************************************************************************)
(* Properties of EvCode::into_u32 (under SpecEvCode).                      *)
(***************************************************************************)
ProbeIndices == {0, 1, 255, 256, MaxIndex}

\* C10 (EventCode packing round trip): for every kind and every index up to
\* 65535 the packed value has the kind's discriminant in its high 16 bits and
\* the index in its low 16 bits, so (value >> 16, value & 0xFFFF) gives back kind
\* and index, and no other code packs to the same value.
C10_PackRoundTrip ==
    call = "into_u32" =>
        /\ Shr32(packed, 16) = KindAsU32(code.kind)
        /\ BitAnd32(packed, MaxIndex) = code.index
        /\ \A kind \in EvCodeKinds, i \in ProbeIndices \cup {code.index} :
             EvCode(kind, i) # code => into_u32(EvCode(kind, i)) # packed

\* the code (Switch, 65535), the largest of the claim, was packed
C10_Witness ==
    /\ call = "into_u32"
    /\ code = EvCode("Switch", MaxIndex)
    /\ packed = 2 * Pow2(16) + MaxIndex

====
